---- MODULE Spec2Model ----
(***************************************************************************)
(* Model of the warden admission webhook                                   *)
(*   internal/admission/defaulting.go : DefaultingWebHook (Handle ->       *)
(*       handleWithTimeout -> handle -> labelPod)                          *)
(* and of the image validator                                              *)
(*   internal/validate (notaryService.Validate and its helpers).           *)
(*                                                                         *)
(* Two state machines share the module: Spec is one admission request     *)
(* going through the webhook (the wrapper task, the handling goroutine,   *)
(* the deadline timer of ctxTimeout, the caller's parent context);        *)
(* ValidateSpec is one call of notaryService.Validate.  PairSpec runs two  *)
(* calls of Validate side by side against the same registry and trust     *)
(* authority, and CredSpec applies parseCredentials to one credential.     *)
(***************************************************************************)
EXTENDS Integers, Sequences, FiniteSets, TLC

VARIABLES
    \* ---- admission webhook (defaulting.go) ----
    wpc,          \* position of the wrapper task: "idle", "select", "returned"
    hpc,          \* position of the goroutine of handleWithTimeout
    req,          \* the admission.Request being handled
    timeout,      \* w.timeout, the configured duration
    ctxErr,       \* ctxTimeout.Err(): NoErr while ctxTimeout.Done() is open
    resp,         \* the variable resp shared by wrapper and goroutine
    ret,          \* what Handle returned to its caller
    pod,          \* the Pod decoded by handle, the object pod points to
    result,       \* what ValidatePod returned
    calls,        \* the collaborators handle has called, in order, as Call records
    labeled,      \* what labelPod returned, NotCalled before
    seen,         \* what the select statement found ready when it resolved
    hpcAtDeadline, \* position of the goroutine when the deadline elapsed
    \* ---- image validator (notaryService) ----
    vpc,          \* position inside Validate
    config,       \* s.AllowedRegistries
    image,        \* the image string passed to Validate
    creds,        \* imagePullCredentials
    ref,          \* the parsed name.Reference
    vcalls,       \* the remote calls Validate has made, in order
    notaryRet,    \* what getNotaryImageDigestHash returned
    repoRet,      \* what getRepositoryDigestHash returned
    remoteOptions,\* the remote.Option list of getRepositoryDigestHash
    descriptor,   \* the media type of the fetched descriptor
    verr,         \* what Validate returned
    \* ---- a second call of Validate, for the same image ----
    twin,         \* its state, a record with the fields of ValRun
    \* ---- parseCredentials on its own ----
    cred,         \* the cliType.AuthConfig passed to parseCredentials
    parsed        \* what parseCredentials returned, NotParsed before

admVars == <<wpc, hpc, req, timeout, ctxErr, resp, ret, pod, result, calls,
             labeled, seen, hpcAtDeadline>>
valVars == <<vpc, config, image, creds, ref, vcalls, notaryRet, repoRet,
             remoteOptions, descriptor, verr>>
auxVars == <<twin, cred, parsed>>
vars == <<admVars, valVars, auxVars>>

----------------------------------------------------------------------------
(* Values *)

NoErr == "nil"
DeadlineExceeded == "context deadline exceeded"
Canceled == "context canceled"

PodType == "Pod"

StatusBadRequest == 400
StatusRequestTimeout == 408
StatusInternalServerError == 500
StatusOK == 200

\* validate.ValidationResult; Unrecognized stands for any other value of the type
NoAction == "NoAction"
Invalid == "Invalid"
Valid == "Valid"
ServiceUnavailable == "ServiceUnavailable"
Unrecognized == "Unrecognized"
ValidationResults == {NoAction, Invalid, Valid, ServiceUnavailable, Unrecognized}

PodValidationLabel == "pods.warden.kyma-project.io/validate"
ValidationStatusSuccess == "success"
ValidationStatusReject == "reject"
ValidationStatusPending == "pending"

MaxTimeout == 2
Timeouts == 1..MaxTimeout

\* Label maps.  A Go map is nil or a finite function; JSON has the key
\* "labels" absent or an object.
EmptyMap == [k \in {} |-> ""]
NilLabels == [isNil |-> TRUE, m |-> EmptyMap]
Labels(m) == [isNil |-> FALSE, m |-> m]

OtherLabel == "app"
RawLabels ==
    { NilLabels,
      Labels(EmptyMap),
      Labels([k \in {OtherLabel} |-> "x"]),
      Labels([k \in {PodValidationLabel} |-> ValidationStatusSuccess]),
      Labels([k \in {PodValidationLabel} |-> ValidationStatusReject]),
      Labels([k \in {OtherLabel, PodValidationLabel} |->
                 IF k = OtherLabel THEN "x" ELSE ValidationStatusPending]) }

Kinds == {PodType, "Deployment"}
\* everything of a Pod but its labels, which the webhook neither reads nor writes
PodSpecs == {"containers"}
\* req.Kind.Kind and req.Object.Raw (isNil: the JSON has no "labels" key)
Requests == [kind : Kinds, raw : [labels : RawLabels, spec : PodSpecs]]
NoRequest == [kind |-> "", raw |-> [labels |-> NilLabels, spec |-> ""]]

NoPod == [labels |-> NilLabels, spec |-> ""]
NotCalled == [called |-> FALSE, pod |-> NoPod]

----------------------------------------------------------------------------
(* admission.Response *)

NoPatch == {}
ZeroResponse == [allowed |-> FALSE, code |-> 0, msg |-> "", timeout |-> 0, patches |-> NoPatch]
NoResponse == [allowed |-> FALSE, code |-> -1, msg |-> "", timeout |-> 0, patches |-> NoPatch]

Errored(code, msg) ==
    [allowed |-> FALSE, code |-> code, msg |-> msg, timeout |-> 0, patches |-> NoPatch]

\* errors.Wrapf(err, "request exceeded desired timeout: %s", w.timeout.String())
TimeoutMsg == "request exceeded desired timeout"
TimeoutErrored(err, d) ==
    [allowed |-> FALSE, code |-> StatusRequestTimeout, msg |-> TimeoutMsg,
     timeout |-> d, patches |-> NoPatch]

Allowed(msg) ==
    [allowed |-> TRUE, code |-> StatusOK, msg |-> msg, timeout |-> 0, patches |-> NoPatch]

----------------------------------------------------------------------------
(* JSON: decoding req.Object.Raw, json.Marshal of the Pod, and the JSON patch *)
(* of admission.PatchResponseFromRaw.  An object is its metadata.labels and  *)
(* the rest of it (spec).                                                    *)

\* decoder.Decode: an absent "labels" key leaves the map nil, an object
\* (also the empty one) allocates a map
Decode(raw) == [labels |-> raw.labels, spec |-> raw.spec]

\* json.Marshal: ObjectMeta.Labels is tagged omitempty, so a nil map and an
\* empty map both leave the key out
Marshal(p) ==
    [labels |-> IF p.labels.isNil \/ DOMAIN p.labels.m = {}
                THEN NilLabels ELSE p.labels,
     spec |-> p.spec]

WholeLabels == "/metadata/labels"
PatchOp(op, key, val, m) == [op |-> op, key |-> key, val |-> val, map |-> m]

SpecPath == "/spec"

\* the operations of jsonpatch.CreatePatch(a, b) on metadata.labels
LabelsPatch(a, b) ==
    IF a.labels.isNil /\ b.labels.isNil THEN NoPatch
    ELSE IF a.labels.isNil THEN {PatchOp("add", WholeLabels, "", b.labels.m)}
    ELSE IF b.labels.isNil THEN {PatchOp("remove", WholeLabels, "", EmptyMap)}
    ELSE LET ma == a.labels.m
             mb == b.labels.m
         IN  {PatchOp("add", k, mb[k], EmptyMap) : k \in DOMAIN mb \ DOMAIN ma}
             \cup {PatchOp("replace", k, mb[k], EmptyMap) :
                      k \in {x \in DOMAIN mb \cap DOMAIN ma : ma[x] # mb[x]}}
             \cup {PatchOp("remove", k, "", EmptyMap) : k \in DOMAIN ma \ DOMAIN mb}

\* jsonpatch.CreatePatch(a, b)
CreatePatch(a, b) ==
    LabelsPatch(a, b)
    \cup (IF a.spec = b.spec THEN NoPatch
          ELSE {PatchOp("replace", SpecPath, b.spec, EmptyMap)})

\* metadata.labels of the object the API server stores after applying ps to a
ApplyLabels(a, ps) ==
    IF \E p \in ps : p.key = WholeLabels /\ p.op = "add"
    THEN Labels((CHOOSE p \in ps : p.key = WholeLabels /\ p.op = "add").map)
    ELSE IF \E p \in ps : p.key = WholeLabels /\ p.op = "remove"
    THEN NilLabels
    ELSE IF a.labels.isNil THEN a.labels
    ELSE LET ma == a.labels.m
             removed == {p.key : p \in {q \in ps : q.op = "remove"}}
             written == {p \in ps : p.op \in {"add", "replace"}}
             keys == (DOMAIN ma \ removed) \cup {p.key : p \in written}
         IN  Labels([k \in keys |->
                 IF \E p \in written : p.key = k
                 THEN (CHOOSE p \in written : p.key = k).val
                 ELSE ma[k]])

\* the object the API server stores after applying the patch to a
ApplyPatch(a, ps) ==
    [labels |-> ApplyLabels(a, {p \in ps : p.key # SpecPath}),
     spec |-> IF \E p \in ps : p.key = SpecPath
              THEN (CHOOSE p \in ps : p.key = SpecPath).val
              ELSE a.spec]

\* admission.PatchResponseFromRaw(original, current)
PatchResponseFromRaw(original, current) ==
    [allowed |-> TRUE, code |-> StatusOK, msg |-> "", timeout |-> 0,
     patches |-> CreatePatch(original, current)]

----------------------------------------------------------------------------
(* defaulting.go: labelling *)

\* the mapping with its default case sent to the reject label
LabelForValidationResult_DefaultReject(r) ==
    CASE r = NoAction -> ""
      [] r = Invalid -> ValidationStatusReject
      [] r = Valid -> ValidationStatusSuccess
      [] r = ServiceUnavailable -> ValidationStatusPending
      [] OTHER -> ValidationStatusReject

LabelForValidationResult(r) ==
    CASE r = NoAction -> ""
      [] r = Invalid -> ValidationStatusReject
      [] r = Valid -> ValidationStatusSuccess
      [] r = ServiceUnavailable -> ValidationStatusPending
      [] OTHER -> ValidationStatusPending

\* m with key k set to v (labeledPod.Labels[k] = v)
SetLabel(m, k, v) == [x \in DOMAIN m \cup {k} |-> IF x = k THEN v ELSE m[x]]

\* labelPod returns pod itself for the empty label, else a labelled deep copy
labelPod(r, p) ==
    LET labelToApply == LabelForValidationResult(r)
    IN  IF labelToApply = "" THEN p
        ELSE [p EXCEPT !.labels = Labels(SetLabel(
                 IF p.labels.isNil THEN EmptyMap ELSE p.labels.m,
                 PodValidationLabel, labelToApply))]

\* a labelPod that writes the label into the Pod it was given
DeepCopied_Never(r) == FALSE

\* lines 128-132: whether the Pod labelPod writes to and returns is a
\* pod.DeepCopy(), an object apart from its argument, or the argument itself
DeepCopied(r) == LabelForValidationResult(r) # ""

----------------------------------------------------------------------------
(* defaulting.go: handle, run by the goroutine of handleWithTimeout *)

NoResult == [value |-> "", err |-> NoErr]

\* positions of the goroutine at which w.handle has returned
Completed == {"send", "exit"}

\* handle without its check of the kind
KindRejected_Never(r) == FALSE

\* line 88: the request is for another kind than Pod
KindRejected(r) == r.kind # PodType

\* handle without the early return for NoAction
MapOutcome_NoShortcut(r, p, res) ==
    IF res.err # NoErr THEN Errored(StatusInternalServerError, res.err)
    ELSE PatchResponseFromRaw(r.raw, Marshal(labelPod(res.value, p)))

\* lines 104-118: the response once ValidatePod has returned res
MapOutcome(r, p, res) ==
    IF res.err # NoErr THEN Errored(StatusInternalServerError, res.err)
    ELSE IF res.value = NoAction THEN Allowed("validation is not enabled for pod")
    ELSE PatchResponseFromRaw(r.raw, Marshal(labelPod(res.value, p)))

\* lines 107-111: whether handle gets as far as calling labelPod
CallsLabelPod(res) == res.err = NoErr /\ res.value # NoAction

\* go func() { resp = w.handle(ctxTimeout, req) ...: the kind check
HKind ==
    /\ hpc = "kind"
    /\ IF KindRejected(req)
       THEN /\ resp' = Errored(StatusBadRequest, "Invalid request kind")
            /\ hpc' = "send"
       ELSE /\ hpc' = "decode"
            /\ UNCHANGED resp
    /\ UNCHANGED <<wpc, req, timeout, ctxErr, ret, pod, result, calls, labeled,
                   seen, hpcAtDeadline, valVars, auxVars>>

\* an entry of calls: the collaborator called and whether it returned an error
Call(name, failed) == [name |-> name, failed |-> failed]

\* a handle that goes on to its next step whatever the step returned
AfterStep_Continue(failed, next) == next

\* "if err != nil { return admission.Errored(...) }": where handle goes after
\* a step, "send" being its return
AfterStep(failed, next) == IF failed THEN "send" ELSE next

\* w.decoder.Decode(req, pod)
HDecode ==
    /\ hpc = "decode"
    /\ \E ok \in BOOLEAN :
         /\ calls' = Append(calls, Call("Decode", ~ok))
         /\ hpc' = AfterStep(~ok, "getns")
         /\ IF ok
            THEN /\ pod' = Decode(req.raw)
                 /\ UNCHANGED resp
            ELSE /\ resp' = Errored(StatusInternalServerError, "decode")
                 /\ UNCHANGED pod
    /\ UNCHANGED <<wpc, req, timeout, ctxErr, ret, result, labeled, seen,
                   hpcAtDeadline, valVars, auxVars>>

\* w.client.Get(ctx, ObjectKey{Name: pod.Namespace}, ns)
HGetNamespace ==
    /\ hpc = "getns"
    /\ \E ok \in BOOLEAN :
         /\ calls' = Append(calls, Call("Get", ~ok))
         /\ hpc' = AfterStep(~ok, "validate")
         /\ IF ok
            THEN UNCHANGED resp
            ELSE resp' = Errored(StatusInternalServerError, "get namespace")
    /\ UNCHANGED <<wpc, req, timeout, ctxErr, ret, pod, result, labeled, seen,
                   hpcAtDeadline, valVars, auxVars>>

\* w.validationSvc.ValidatePod(ctx, pod, ns) and the mapping of its outcome;
\* json.Marshal of a Pod has no failing case
HValidatePod ==
    /\ hpc = "validate"
    /\ \E v \in ValidationResults, e \in {NoErr, "validate pod"} :
         LET res == [value |-> v, err |-> e]
         IN  /\ calls' = Append(calls, Call("ValidatePod", e # NoErr))
             /\ result' = res
             /\ labeled' = IF CallsLabelPod(res)
                           THEN [called |-> TRUE, pod |-> labelPod(v, pod)]
                           ELSE labeled
             /\ pod' = IF CallsLabelPod(res) /\ ~DeepCopied(v)
                       THEN labelPod(v, pod)
                       ELSE pod
             /\ resp' = MapOutcome(req, pod, res)
    /\ hpc' = "send"
    /\ UNCHANGED <<wpc, req, timeout, ctxErr, ret, seen, hpcAtDeadline,
                   valVars, auxVars>>

----------------------------------------------------------------------------
(* defaulting.go: Handle -> handleWithLogger -> handleWithTimeMeasure ->     *)
(* handleWithTimeout                                                         *)

\* lines 41-74: Handle is called; ctxTimeout is derived and the goroutine started
HandleCall ==
    /\ wpc = "idle"
    /\ \E r \in Requests : req' = r
    /\ ctxErr' = NoErr
    /\ resp' = ZeroResponse
    /\ hpc' = "kind"
    /\ wpc' = "select"
    /\ UNCHANGED <<timeout, ret, pod, result, calls, labeled, seen,
                   hpcAtDeadline, valVars, auxVars>>

\* the timer of context.WithTimeout fires: ctxTimeout.Done() is closed
DeadlineElapses ==
    /\ wpc = "select"
    /\ ctxErr = NoErr
    /\ ctxErr' = DeadlineExceeded
    /\ hpcAtDeadline' = hpc
    /\ UNCHANGED <<wpc, hpc, req, timeout, resp, ret, pod, result, calls,
                   labeled, seen, valVars, auxVars>>

\* the caller cancels the parent context ctx: ctxTimeout.Done() is closed too
ParentCancel ==
    /\ wpc = "select"
    /\ ctxErr = NoErr
    /\ ctxErr' = Canceled
    /\ UNCHANGED <<wpc, hpc, req, timeout, resp, ret, pod, result, calls,
                   labeled, seen, hpcAtDeadline, valVars, auxVars>>

\* a wrapper that waits for the goroutine alone
SelectBranches_DoneOnly ==
    IF hpc = "send" THEN {"done"} ELSE {}

\* lines 76-78: the cases of the select statement that can proceed
SelectBranches ==
    (IF hpc = "send" THEN {"done"} ELSE {})
    \cup (IF ctxErr # NoErr THEN {"timeout"} ELSE {})

\* the timeout case falling through to "return resp"
SelectResponse_FallThrough(branch) == resp

\* the goroutine assigning a resp of its own, the wrapper returning its zero one
SelectResponse_Shadowed(branch) ==
    IF branch = "timeout" /\ ctxErr # NoErr
    THEN TimeoutErrored(ctxErr, timeout)
    ELSE ZeroResponse

\* lines 77-84: what handleWithTimeout returns from the chosen case
SelectResponse(branch) ==
    IF branch = "timeout" /\ ctxErr # NoErr
    THEN TimeoutErrored(ctxErr, timeout)
    ELSE resp

\* lines 76-85: the select resolves, handleWithTimeout returns and the
\* deferred cancel() runs
Select ==
    /\ wpc = "select"
    /\ \E branch \in SelectBranches :
         /\ ret' = SelectResponse(branch)
         /\ seen' = [done |-> hpc = "send", ctx |-> ctxErr, branch |-> branch]
         /\ hpc' = IF branch = "done" THEN "exit" ELSE hpc
    /\ ctxErr' = IF ctxErr = NoErr THEN Canceled ELSE ctxErr
    /\ wpc' = "returned"
    /\ UNCHANGED <<req, timeout, resp, pod, result, calls, labeled,
                   hpcAtDeadline, valVars, auxVars>>

----------------------------------------------------------------------------
(* internal/validate: values of the image validator *)

\* An image string is a sequence of its parts: a registry host, a repository
\* path, a tag.  Prefixes of the allow list are such sequences too.
Registries == {"r1", "r2"}
RepoPath == "/p"
Tag == ":t"
Images ==
    { <<>>, <<"r1">>, <<"r1", RepoPath>>, <<RepoPath, Tag>>,
      <<"r1", RepoPath, Tag>>, <<"r2", RepoPath, Tag>> }
AllowLists ==
    { <<>>,
      << <<"r1">> >>,
      << <<"r2", RepoPath, Tag>>, <<"r1", RepoPath>> >>,
      << <<RepoPath>>, <<"r2", RepoPath>> >> }

\* pkg.NewValidationFailedErr / pkg.NewUnknownResultErr
ValidationFailed == "ValidationFailed"
UnknownResult == "UnknownResult"
\* An error is its class, the message the validator gives it, and the text of
\* the collaborator's error it wraps where the validator reads that text.
NilError == [class |-> "nil", msg |-> "", cause |-> <<>>]
NewValidationFailedErr(msg) == [class |-> ValidationFailed, msg |-> msg, cause |-> <<>>]

\* an error returned without a class of its own
NewUnknownResultErr_Unclassified(msg) == [class |-> "error", msg |-> msg, cause |-> <<>>]

NewUnknownResultErr(msg) == [class |-> UnknownResult, msg |-> msg, cause |-> <<>>]
\* pkg.NewValidationFailedErr(err) / pkg.NewUnknownResultErr(err) on an error
\* of the trust authority, whose text is errMsg
ValidationFailedErrOf(errMsg) == [class |-> ValidationFailed, msg |-> "", cause |-> errMsg]
UnknownResultErrOf(errMsg) == [class |-> UnknownResult, msg |-> "", cause |-> errMsg]

\* Digests are byte strings; the registry reports them in hexadecimal.
MaxDigestLen == 1
HexChars == {"0", "1", "g"}
HexStrings == UNION {[1..n -> HexChars] : n \in 0..(2 * MaxDigestLen)}
HexValue(c) == CASE c = "0" -> 0 [] c = "1" -> 1 [] OTHER -> -1
Bytes == {16 * hi + lo : hi \in {0, 1}, lo \in {0, 1}}
Digests == UNION {[1..n -> Bytes] : n \in 0..MaxDigestLen}

\* hex.DecodeString: an invalid character or an odd length is an error
HexDecode(h) ==
    IF \E i \in 1..Len(h) : HexValue(h[i]) < 0 THEN [ok |-> FALSE, bytes |-> <<>>]
    ELSE IF Len(h) % 2 = 1 THEN [ok |-> FALSE, bytes |-> <<>>]
    ELSE [ok |-> TRUE,
          bytes |-> [i \in 1..(Len(h) \div 2) |->
                        16 * HexValue(h[2 * i - 1]) + HexValue(h[2 * i])]]

\* a []byte that may be nil
NilBytes == [isNil |-> TRUE, bytes |-> <<>>]
SomeBytes(b) == [isNil |-> FALSE, bytes |-> b]

\* Strings of a credential are sequences of bytes; Auth is base64 text, a
\* sequence of characters.
Colon == 58
User == <<117>>
Pass == <<112>>
Token == <<116>>

\* cliType.AuthConfig
AuthConfig(u, pw, tok, auth) ==
    [Username |-> u, Password |-> pw, RegistryToken |-> tok, Auth |-> auth]
BasicCred == AuthConfig(User, Pass, <<>>, <<>>)
EmptyCred == AuthConfig(<<>>, <<>>, <<>>, <<>>)
NoCreds == [r \in {} |-> EmptyCred]
\* "dTpw" is the base64 text of "u:p"; "OOOO" decodes to three bytes without
\* a colon
CredMaps ==
    { NoCreds,
      [r \in {"r1"} |-> BasicCred],
      [r \in {"r2"} |-> AuthConfig(<<>>, <<>>, <<>>, <<"d", "T", "p", "w">>)],
      [r \in {"r2"} |-> AuthConfig(User, <<>>, <<>>, <<"O", "O", "O", "O">>)] }

\* the credentials parseCredentials is applied to on its own
MaxAuthLen == 4
AuthChars == {"O", "j", "o", "=", "!"}
AuthConfigs ==
    [Username : {<<>>, User}, Password : {<<>>, Pass},
     RegistryToken : {<<>>, Token},
     Auth : UNION {[1..n -> AuthChars] : n \in 0..MaxAuthLen}]

\* the value of a character in the alphabet of base64.StdEncoding; -1 for a
\* character that is not in it (the padding character included)
B64Value(c) ==
    CASE c = "O" -> 14 [] c = "T" -> 19 [] c = "d" -> 29 [] c = "j" -> 35
      [] c = "o" -> 40 [] c = "p" -> 41 [] c = "w" -> 48
      [] OTHER -> -1
NotBase64 == [ok |-> FALSE, text |-> <<>>]

\* base64.StdEncoding.DecodeString: quanta of four characters give three
\* bytes; "xx==" and "xxx=" are allowed as the last quantum only; any other
\* character, padding elsewhere or a short last quantum is an error.  The
\* decoder is not strict about the unused bits of a padded quantum.
RECURSIVE Base64Decode(_)
Base64Decode(a) ==
    IF a = <<>> THEN [ok |-> TRUE, text |-> <<>>]
    ELSE IF Len(a) < 4 THEN NotBase64
    ELSE LET v1 == B64Value(a[1])
             v2 == B64Value(a[2])
             v3 == B64Value(a[3])
             v4 == B64Value(a[4])
             rest == SubSeq(a, 5, Len(a))
             b1 == 4 * v1 + (v2 \div 16)
             b2 == 16 * (v2 % 16) + (v3 \div 4)
             b3 == 64 * (v3 % 4) + v4
         IN  IF v1 < 0 \/ v2 < 0 THEN NotBase64
             ELSE IF a[3] = "="
             THEN IF a[4] = "=" /\ rest = <<>>
                  THEN [ok |-> TRUE, text |-> <<b1>>]
                  ELSE NotBase64
             ELSE IF v3 < 0 THEN NotBase64
             ELSE IF a[4] = "="
             THEN IF rest = <<>>
                  THEN [ok |-> TRUE, text |-> <<b1, b2>>]
                  ELSE NotBase64
             ELSE IF v4 < 0 THEN NotBase64
             ELSE LET r == Base64Decode(rest)
                  IN  IF r.ok THEN [ok |-> TRUE, text |-> <<b1, b2, b3>> \o r.text]
                      ELSE NotBase64

\* strings.Split(s, ":")
RECURSIVE SplitColon(_)
SplitColon(s) ==
    IF \A i \in 1..Len(s) : s[i] # Colon THEN <<s>>
    ELSE LET k == CHOOSE i \in 1..Len(s) :
                     s[i] = Colon /\ \A j \in 1..(i - 1) : s[j] # Colon
         IN  <<SubSeq(s, 1, k - 1)>> \o SplitColon(SubSeq(s, k + 1, Len(s)))

NoAuth == [kind |-> "none", user |-> <<>>, secret |-> <<>>]
Basic(u, pw) == [kind |-> "basic", user |-> u, secret |-> pw]
Bearer(tok) == [kind |-> "bearer", user |-> <<>>, secret |-> tok]

\* a parseCredentials that looks at the registry token first
parseCredentials_TokenFirst(c) ==
    IF c.RegistryToken # <<>>
    THEN [err |-> NilError, auth |-> Bearer(c.RegistryToken)]
    ELSE IF c.Username # <<>> /\ c.Password # <<>>
    THEN [err |-> NilError, auth |-> Basic(c.Username, c.Password)]
    ELSE [err |-> NewValidationFailedErr("unknown auth secret format"), auth |-> NoAuth]

\* parseCredentials
parseCredentials(c) ==
    IF c.Username # <<>> /\ c.Password # <<>>
    THEN [err |-> NilError, auth |-> Basic(c.Username, c.Password)]
    ELSE IF c.RegistryToken # <<>>
    THEN [err |-> NilError, auth |-> Bearer(c.RegistryToken)]
    ELSE IF c.Auth # <<>>
    THEN LET d == Base64Decode(c.Auth)
         IN  IF ~d.ok
             THEN [err |-> NewValidationFailedErr("cannot decode base64 encoded auth"),
                   auth |-> NoAuth]
             ELSE LET parts == SplitColon(d.text)
                  IN  IF Len(parts) # 2
                      THEN [err |-> NewValidationFailedErr(
                                "invalid auth format, expected username:password form"),
                            auth |-> NoAuth]
                      ELSE [err |-> NilError, auth |-> Basic(parts[1], parts[2])]
    ELSE [err |-> NewValidationFailedErr("unknown auth secret format"), auth |-> NoAuth]

\* strings.HasPrefix
HasPrefix(s, prefix) ==
    Len(s) >= Len(prefix) /\ SubSeq(s, 1, Len(prefix)) = prefix

\* a loop that returns after its first entry
isImageAllowed_FirstOnly(imgRepo, allowedRegistries) ==
    allowedRegistries # <<>> /\ HasPrefix(imgRepo, Head(allowedRegistries))

\* isImageAllowed: the loop over s.AllowedRegistries
RECURSIVE isImageAllowed(_, _)
isImageAllowed(imgRepo, allowedRegistries) ==
    IF allowedRegistries = <<>> THEN FALSE
    ELSE IF HasPrefix(imgRepo, Head(allowedRegistries)) THEN TRUE
    ELSE isImageAllowed(imgRepo, Tail(allowedRegistries))

\* name.ParseReference(image, name.StrictValidation): a registry host, a
\* repository and a tag are all required
NoRef == [registry |-> "", identifier |-> ""]
ParseReference(img) ==
    IF Len(img) = 3 /\ img[1] \in Registries /\ img[2] = RepoPath /\ img[3] = Tag
    THEN [ok |-> TRUE, ref |-> [registry |-> img[1], identifier |-> img[3]]]
    ELSE [ok |-> FALSE, ref |-> NoRef]

\* a comparison of the lengths alone
ConstantTimeCompare_LengthOnly(x, y) == IF Len(x) = Len(y) THEN 1 ELSE 0

\* subtle.ConstantTimeCompare: 0 for different lengths, else the differences
\* of all bytes are accumulated
RECURSIVE XorAccumulate(_, _, _, _)
XorAccumulate(x, y, i, v) ==
    IF i > Len(x) THEN v
    ELSE XorAccumulate(x, y, i + 1, IF x[i] # y[i] THEN 1 ELSE v)
ConstantTimeCompare(x, y) ==
    IF Len(x) # Len(y) THEN 0
    ELSE IF XorAccumulate(x, y, 1, 0) = 0 THEN 1 ELSE 0

\* The text of an error of the trust authority is a sequence of words.
MaxMsgLen == 3
MsgWords == {"does not have", "No valid", "trust data for", "timeout"}
NotaryMessages == UNION {[1..n -> MsgWords] : n \in 0..MaxMsgLen}
NoTrustData == <<"does not have", "trust data for">>
NoValidTrustData == <<"No valid", "trust data for">>

\* strings.Contains
Contains(s, substr) ==
    \E i \in 1..(Len(s) - Len(substr) + 1) :
        SubSeq(s, i, i + Len(substr) - 1) = substr

\* a parseNotaryErr that knows the first phrasing alone
parseNotaryErr_FirstPhrasing(errMsg) ==
    IF Contains(errMsg, NoTrustData) THEN ValidationFailedErrOf(errMsg)
    ELSE UnknownResultErrOf(errMsg)

\* parseNotaryErr
parseNotaryErr(errMsg) ==
    IF Contains(errMsg, NoTrustData) THEN ValidationFailedErrOf(errMsg)
    ELSE IF Contains(errMsg, NoValidTrustData) THEN ValidationFailedErrOf(errMsg)
    ELSE UnknownResultErrOf(errMsg)

\* the verdict without the nil check of the manifest digest
Verdict_NoNilCheck(shaImageBytes, shaManifestBytes, expectedShaBytes) ==
    IF ConstantTimeCompare(shaImageBytes, expectedShaBytes) = 1 THEN NilError
    ELSE IF ConstantTimeCompare(shaManifestBytes.bytes, expectedShaBytes) = 1
    THEN NilError
    ELSE NewValidationFailedErr("unexpected image hash value")

\* lines 150-159: the verdict once both digests are there
Verdict(shaImageBytes, shaManifestBytes, expectedShaBytes) ==
    IF ConstantTimeCompare(shaImageBytes, expectedShaBytes) = 1 THEN NilError
    ELSE IF ~shaManifestBytes.isNil
            /\ ConstantTimeCompare(shaManifestBytes.bytes, expectedShaBytes) = 1
    THEN NilError
    ELSE NewValidationFailedErr("unexpected image hash value")

\* Validate wrapping every error of a lookup as an unknown result
PropagateErr_Reclassified(err) == NewUnknownResultErr(err.msg)

\* lines 140-148: an error of either lookup is returned as it is
PropagateErr(err) == err

----------------------------------------------------------------------------
(* internal/validate: notaryService.Validate, one step per remote call *)

\* target.Hashes: a map from the hash algorithm to the hash
HashAlgorithms == {"sha256", "sha512"}
TargetHashes == UNION {[algs -> Digests] : algs \in SUBSET HashAlgorithms}
NoHashes == [k \in {} |-> <<>>]

\* what getNotaryImageDigestHash returned; found and hashes keep the target
\* GetTargetByName gave it
NoNotaryRet ==
    [returned |-> FALSE, digest |-> <<>>, err |-> NilError,
     found |-> FALSE, hashes |-> NoHashes]
NoRepoRet ==
    [returned |-> FALSE, image |-> <<>>, manifest |-> NilBytes, err |-> NilError]

\* an entry of vcalls: the call, whether it carried an authenticator, and
\* whether it returned an error
RemoteCall(name, withAuth, failed) ==
    [name |-> name, auth |-> withAuth, failed |-> failed]
NotaryCalls == {"NewRepoClient", "GetTargetByName"}
RegistryCalls == {"remote.Get", "remote.Index", "remote.Image"}

\* The state of one call of Validate, as a record.
ValRun ==
    [pc |-> vpc, image |-> image, creds |-> creds, ref |-> ref,
     vcalls |-> vcalls, notaryRet |-> notaryRet, repoRet |-> repoRet,
     remoteOptions |-> remoteOptions, descriptor |-> descriptor, verr |-> verr]
IdleRun ==
    [pc |-> "idle", image |-> <<>>, creds |-> NoCreds, ref |-> NoRef,
     vcalls |-> <<>>, notaryRet |-> NoNotaryRet, repoRet |-> NoRepoRet,
     remoteOptions |-> <<>>, descriptor |-> "", verr |-> NilError]
\* the call of Validate moves to the state n
Become(n) ==
    /\ vpc' = n.pc
    /\ image' = n.image
    /\ creds' = n.creds
    /\ ref' = n.ref
    /\ vcalls' = n.vcalls
    /\ notaryRet' = n.notaryRet
    /\ repoRet' = n.repoRet
    /\ remoteOptions' = n.remoteOptions
    /\ descriptor' = n.descriptor
    /\ verr' = n.verr

\* st after the remote call name, made with the options st has
Called(st, name, failed) ==
    [st EXCEPT !.vcalls = Append(@, RemoteCall(name, st.remoteOptions # <<>>, failed))]

\* What the trust authority answers: an error with its text, or a target
\* (the client, with no hashes, for NewRepoClient).
NotaryFailed(errMsg) == [failed |-> TRUE, msg |-> errMsg, hashes |-> NoHashes]
NotaryTarget(hashes) == [failed |-> FALSE, msg |-> <<>>, hashes |-> hashes]
ClientOutcomes(msgs) == {NotaryTarget(NoHashes)} \cup {NotaryFailed(m) : m \in msgs}
TargetOutcomes(msgs, targets) ==
    {NotaryFailed(m) : m \in msgs} \cup {NotaryTarget(h) : h \in targets}

\* What a fetch from the registry gives: the step that failed, or the digest
\* in hexadecimal.
FetchOutcomes(whats, hexes) ==
    {[fails |-> w, hex |-> <<>>] : w \in whats}
    \cup {[fails |-> "", hex |-> h] : h \in hexes}
\* What remote.Get gives: the media type of the descriptor, or "fail".
MediaTypes == {"index", "image", "other"}

\* getNotaryImageDigestHash fails with err, and Validate returns it
NotaryFails(st, err) ==
    [st EXCEPT !.notaryRet = [NoNotaryRet EXCEPT !.returned = TRUE, !.err = err],
               !.verr = PropagateErr(err),
               !.pc = "done"]

\* a count check that takes some hash of a target with several
NotaryOutcome_AnyHash(out) ==
    IF out.failed
    THEN [NoNotaryRet EXCEPT !.returned = TRUE, !.err = parseNotaryErr(out.msg)]
    ELSE IF Cardinality(DOMAIN out.hashes) = 0
    THEN [returned |-> TRUE, digest |-> <<>>,
          err |-> NewValidationFailedErr("image hash is missing"),
          found |-> TRUE, hashes |-> out.hashes]
    ELSE [returned |-> TRUE,
          digest |-> out.hashes[CHOOSE k \in DOMAIN out.hashes : TRUE],
          err |-> NilError, found |-> TRUE, hashes |-> out.hashes]

\* lines 316-333: what getNotaryImageDigestHash makes of GetTargetByName
NotaryOutcome(out) ==
    IF out.failed
    THEN [NoNotaryRet EXCEPT !.returned = TRUE, !.err = parseNotaryErr(out.msg)]
    ELSE IF Cardinality(DOMAIN out.hashes) = 0
    THEN [returned |-> TRUE, digest |-> <<>>,
          err |-> NewValidationFailedErr("image hash is missing"),
          found |-> TRUE, hashes |-> out.hashes]
    ELSE IF Cardinality(DOMAIN out.hashes) > 1
    THEN [returned |-> TRUE, digest |-> <<>>,
          err |-> NewValidationFailedErr("more than one hash for image"),
          found |-> TRUE, hashes |-> out.hashes]
    ELSE [returned |-> TRUE,
          digest |-> out.hashes[CHOOSE k \in DOMAIN out.hashes : TRUE],
          err |-> NilError, found |-> TRUE, hashes |-> out.hashes]

\* getRepositoryDigestHash fails with err, and Validate returns it
RepoFails(st, err) ==
    [st EXCEPT !.repoRet = [returned |-> TRUE, image |-> <<>>,
                            manifest |-> NilBytes, err |-> err],
               !.verr = PropagateErr(err),
               !.pc = "done"]

\* getRepositoryDigestHash returns the digests, and Validate compares them
RepoReturns(st, img, manifest) ==
    [st EXCEPT !.repoRet = [returned |-> TRUE, image |-> img,
                            manifest |-> manifest, err |-> NilError],
               !.verr = Verdict(img, manifest, st.notaryRet.digest),
               !.pc = "done"]

\* lines 125-138: the allow list and the strict parse
ValidateEntry(img, c, allowedRegistries) ==
    LET st == [IdleRun EXCEPT !.image = img, !.creds = c]
    IN  IF isImageAllowed(img, allowedRegistries)
        THEN [st EXCEPT !.pc = "done"]
        ELSE LET r == ParseReference(img)
             IN  IF ~r.ok
                 THEN [st EXCEPT
                          !.verr = NewValidationFailedErr("image name could not be parsed"),
                          !.pc = "done"]
                 ELSE [st EXCEPT !.ref = r.ref, !.pc = "newRepoClient"]

\* lines 306-310: s.RepoFactory.NewRepoClient
NewRepoClient(st, out) ==
    LET s1 == Called(st, "NewRepoClient", out.failed)
    IN  IF out.failed
        THEN NotaryFails(s1, UnknownResultErrOf(out.msg))
        ELSE [s1 EXCEPT !.pc = "getTarget"]

\* lines 314-333: c.GetTargetByName and the count of the hashes
GetTargetByName(st, out) ==
    LET s1 == Called(st, "GetTargetByName", out.failed)
        got == NotaryOutcome(out)
    IN  IF got.err # NilError
        THEN [s1 EXCEPT !.notaryRet = got,
                        !.verr = PropagateErr(got.err),
                        !.pc = "done"]
        ELSE [s1 EXCEPT !.notaryRet = got, !.pc = "getAnonymous"]

\* lines 208-221: the branch on descriptor.MediaType
Descriptor(st, mediaType) ==
    IF mediaType \in {"index", "image"}
    THEN [st EXCEPT !.descriptor = mediaType, !.pc = mediaType]
    ELSE RepoFails([st EXCEPT !.descriptor = mediaType],
                   NewValidationFailedErr("not an image or image list"))

\* an anonymous fetch whose failure without credentials counts against the image
GetAnonymous_BlamesImage(st, out) ==
    LET s1 == Called(st, "remote.Get", out = "fail")
    IN  IF out # "fail" THEN Descriptor(s1, out)
        ELSE IF st.ref.registry \notin DOMAIN st.creds
        THEN RepoFails(s1, NewValidationFailedErr("get image descriptor anonymously"))
        ELSE LET p == parseCredentials(st.creds[st.ref.registry])
             IN  IF p.err # NilError THEN RepoFails(s1, p.err)
                 ELSE [s1 EXCEPT !.remoteOptions = <<p.auth>>,
                                 !.pc = "getAuthenticated"]

\* a fetch that resolves the credentials of the registry before it asks the
\* registry anonymously
GetAnonymous_ResolvesFirst(st, out) ==
    IF st.ref.registry \in DOMAIN st.creds
       /\ parseCredentials(st.creds[st.ref.registry]).err # NilError
    THEN RepoFails(st, parseCredentials(st.creds[st.ref.registry]).err)
    ELSE LET s1 == Called(st, "remote.Get", out = "fail")
         IN  IF out # "fail" THEN Descriptor(s1, out)
             ELSE IF st.ref.registry \notin DOMAIN st.creds
             THEN RepoFails(s1, NewUnknownResultErr("get image descriptor anonymously"))
             ELSE [s1 EXCEPT !.remoteOptions =
                                 <<parseCredentials(st.creds[st.ref.registry]).auth>>,
                             !.pc = "getAuthenticated"]

\* lines 180-200: remote.Get(ref) without credentials, and what follows its
\* failure
GetAnonymous(st, out) ==
    LET s1 == Called(st, "remote.Get", out = "fail")
    IN  IF out # "fail" THEN Descriptor(s1, out)
        ELSE IF st.ref.registry \notin DOMAIN st.creds
        THEN RepoFails(s1, NewUnknownResultErr("get image descriptor anonymously"))
        ELSE LET p == parseCredentials(st.creds[st.ref.registry])
             IN  IF p.err # NilError THEN RepoFails(s1, p.err)
                 ELSE [s1 EXCEPT !.remoteOptions = <<p.auth>>,
                                 !.pc = "getAuthenticated"]

\* lines 201-204: remote.Get(ref, remoteOptions...) with the authenticator
GetAuthenticated(st, out) ==
    LET s1 == Called(st, "remote.Get", out = "fail")
    IN  IF out # "fail" THEN Descriptor(s1, out)
        ELSE RepoFails(s1, NewUnknownResultErr("get image descriptor"))

\* getIndexDigestHash: remote.Index, i.Digest, hex.DecodeString
getIndexDigestHash(st, out) ==
    LET s1 == Called(st, "remote.Index", out.fails = "get image")
    IN  IF out.fails # "" THEN RepoFails(s1, NewUnknownResultErr(out.fails))
        ELSE LET d == HexDecode(out.hex)
             IN  IF ~d.ok THEN RepoFails(s1, NewUnknownResultErr("checksum error"))
                 ELSE RepoReturns(s1, d.bytes, NilBytes)

\* getImageDigestHash: remote.Image
RemoteImage(st, ok) ==
    LET s1 == Called(st, "remote.Image", ~ok)
    IN  IF ~ok THEN RepoFails(s1, NewUnknownResultErr("get image"))
        ELSE [s1 EXCEPT !.pc = "manifest"]

\* getImageDigestHash: i.Manifest and the hex decoding of m.Config.Digest.Hex
ImageManifest(st, out) ==
    IF out.fails # "" THEN RepoFails(st, NewUnknownResultErr(out.fails))
    ELSE LET d == HexDecode(out.hex)
         IN  IF ~d.ok
             THEN RepoFails(st, NewUnknownResultErr("manifest checksum error"))
             ELSE [st EXCEPT !.repoRet = [@ EXCEPT !.manifest = SomeBytes(d.bytes)],
                             !.pc = "digest"]

\* getImageDigestHash: i.Digest and the hex decoding of digest.Hex; then
\* lines 150-159 of Validate
ImageDigest(st, out) ==
    IF out.fails # "" THEN RepoFails(st, NewUnknownResultErr(out.fails))
    ELSE LET d == HexDecode(out.hex)
         IN  IF ~d.ok THEN RepoFails(st, NewUnknownResultErr("checksum error"))
             ELSE RepoReturns(st, d.bytes, st.repoRet.manifest)

----------------------------------------------------------------------------
(* One call of Validate: each step with what its collaborator answers *)

VCall ==
    /\ vpc = "idle"
    /\ \E img \in Images, c \in CredMaps : Become(ValidateEntry(img, c, config))
    /\ UNCHANGED <<config, admVars, auxVars>>

VNewRepoClient ==
    /\ vpc = "newRepoClient"
    /\ \E out \in ClientOutcomes(NotaryMessages) : Become(NewRepoClient(ValRun, out))
    /\ UNCHANGED <<config, admVars, auxVars>>

VGetTargetByName ==
    /\ vpc = "getTarget"
    /\ \E out \in TargetOutcomes(NotaryMessages, TargetHashes) :
         Become(GetTargetByName(ValRun, out))
    /\ UNCHANGED <<config, admVars, auxVars>>

VGetAnonymous ==
    /\ vpc = "getAnonymous"
    /\ \E out \in MediaTypes \cup {"fail"} : Become(GetAnonymous(ValRun, out))
    /\ UNCHANGED <<config, admVars, auxVars>>

VGetAuthenticated ==
    /\ vpc = "getAuthenticated"
    /\ \E out \in MediaTypes \cup {"fail"} : Become(GetAuthenticated(ValRun, out))
    /\ UNCHANGED <<config, admVars, auxVars>>

VIndex ==
    /\ vpc = "index"
    /\ \E out \in FetchOutcomes({"get image", "image digest"}, HexStrings) :
         Become(getIndexDigestHash(ValRun, out))
    /\ UNCHANGED <<config, admVars, auxVars>>

VImage ==
    /\ vpc = "image"
    /\ \E ok \in BOOLEAN : Become(RemoteImage(ValRun, ok))
    /\ UNCHANGED <<config, admVars, auxVars>>

VManifest ==
    /\ vpc = "manifest"
    /\ \E out \in FetchOutcomes({"image manifest"}, HexStrings) :
         Become(ImageManifest(ValRun, out))
    /\ UNCHANGED <<config, admVars, auxVars>>

VDigest ==
    /\ vpc = "digest"
    /\ \E out \in FetchOutcomes({"image digest"}, HexStrings) :
         Become(ImageDigest(ValRun, out))
    /\ UNCHANGED <<config, admVars, auxVars>>

----------------------------------------------------------------------------
(* Two calls of Validate for the same image, with credential maps of their   *)
(* own, against the same registry and trust authority: while both are about  *)
(* to make the same call, the collaborator answers both alike.  The pair     *)
(* stops where the two calls part.                                           *)

PairCredMaps ==
    CredMaps \cup
    { [r \in {"r1"} |-> AuthConfig(<<>>, <<>>, <<>>, <<"O", "O", "O", "O">>)],
      [r \in {"r1", "r2"} |->
          IF r = "r1" THEN BasicCred
          ELSE AuthConfig(<<>>, <<>>, <<>>, <<"O", "O", "O", "O">>)] }
PairMessages == {<<"timeout">>, NoTrustData}
PairTargets ==
    { NoHashes,
      [k \in {"sha256"} |-> <<0>>],
      [k \in {"sha256"} |-> <<1>>],
      [k \in HashAlgorithms |-> <<0>>] }
PairHexStrings == {<<"0", "0">>, <<"0", "1">>, <<"g", "0">>}

\* both calls are at the same step and would send the same request
SameCall == twin.pc = vpc /\ twin.remoteOptions = remoteOptions

PCall ==
    /\ vpc = "idle"
    /\ twin.pc = "idle"
    /\ \E img \in Images, c1 \in PairCredMaps, c2 \in PairCredMaps :
         /\ Become(ValidateEntry(img, c1, config))
         /\ twin' = ValidateEntry(img, c2, config)
    /\ UNCHANGED <<config, admVars, cred, parsed>>

PNewRepoClient ==
    /\ vpc = "newRepoClient"
    /\ SameCall
    /\ \E out \in ClientOutcomes(PairMessages) :
         /\ Become(NewRepoClient(ValRun, out))
         /\ twin' = NewRepoClient(twin, out)
    /\ UNCHANGED <<config, admVars, cred, parsed>>

PGetTargetByName ==
    /\ vpc = "getTarget"
    /\ SameCall
    /\ \E out \in TargetOutcomes(PairMessages, PairTargets) :
         /\ Become(GetTargetByName(ValRun, out))
         /\ twin' = GetTargetByName(twin, out)
    /\ UNCHANGED <<config, admVars, cred, parsed>>

PGetAnonymous ==
    /\ vpc = "getAnonymous"
    /\ SameCall
    /\ \E out \in MediaTypes \cup {"fail"} :
         /\ Become(GetAnonymous(ValRun, out))
         /\ twin' = GetAnonymous(twin, out)
    /\ UNCHANGED <<config, admVars, cred, parsed>>

PGetAuthenticated ==
    /\ vpc = "getAuthenticated"
    /\ SameCall
    /\ \E out \in MediaTypes \cup {"fail"} :
         /\ Become(GetAuthenticated(ValRun, out))
         /\ twin' = GetAuthenticated(twin, out)
    /\ UNCHANGED <<config, admVars, cred, parsed>>

PIndex ==
    /\ vpc = "index"
    /\ SameCall
    /\ \E out \in FetchOutcomes({"get image", "image digest"}, PairHexStrings) :
         /\ Become(getIndexDigestHash(ValRun, out))
         /\ twin' = getIndexDigestHash(twin, out)
    /\ UNCHANGED <<config, admVars, cred, parsed>>

PImage ==
    /\ vpc = "image"
    /\ SameCall
    /\ \E ok \in BOOLEAN :
         /\ Become(RemoteImage(ValRun, ok))
         /\ twin' = RemoteImage(twin, ok)
    /\ UNCHANGED <<config, admVars, cred, parsed>>

PManifest ==
    /\ vpc = "manifest"
    /\ SameCall
    /\ \E out \in FetchOutcomes({"image manifest"}, PairHexStrings) :
         /\ Become(ImageManifest(ValRun, out))
         /\ twin' = ImageManifest(twin, out)
    /\ UNCHANGED <<config, admVars, cred, parsed>>

PDigest ==
    /\ vpc = "digest"
    /\ SameCall
    /\ \E out \in FetchOutcomes({"image digest"}, PairHexStrings) :
         /\ Become(ImageDigest(ValRun, out))
         /\ twin' = ImageDigest(twin, out)
    /\ UNCHANGED <<config, admVars, cred, parsed>>

----------------------------------------------------------------------------
(* parseCredentials applied to one credential *)

NotParsed == [called |-> FALSE, err |-> NilError, auth |-> NoAuth]

ParseCredentials ==
    /\ ~parsed.called
    /\ parsed' = [called |-> TRUE, err |-> parseCredentials(cred).err,
                  auth |-> parseCredentials(cred).auth]
    /\ UNCHANGED <<admVars, valVars, twin, cred>>

----------------------------------------------------------------------------
(* Initial states and specifications *)

NotSeen == [done |-> FALSE, ctx |-> NoErr, branch |-> ""]

\* no request has arrived yet
AdmIdle ==
    /\ wpc = "idle"
    /\ hpc = "idle"
    /\ req = NoRequest
    /\ ctxErr = NoErr
    /\ resp = ZeroResponse
    /\ ret = NoResponse
    /\ pod = NoPod
    /\ result = NoResult
    /\ calls = <<>>
    /\ labeled = NotCalled
    /\ seen = NotSeen
    /\ hpcAtDeadline = ""

\* Validate has not been called yet
ValIdle ==
    /\ vpc = "idle"
    /\ image = <<>>
    /\ creds = NoCreds
    /\ ref = NoRef
    /\ vcalls = <<>>
    /\ notaryRet = NoNotaryRet
    /\ repoRet = NoRepoRet
    /\ remoteOptions = <<>>
    /\ descriptor = ""
    /\ verr = NilError

\* no second call of Validate, no call of parseCredentials
AuxIdle ==
    /\ twin = IdleRun
    /\ cred = EmptyCred
    /\ parsed = NotParsed

\* NewDefaultingWebhook: the webhook with its configured timeout
Init ==
    /\ AdmIdle
    /\ timeout \in Timeouts
    /\ ValIdle
    /\ config = <<>>
    /\ AuxIdle

\* NewImageValidator: the validator with its allow list
VInit ==
    /\ AdmIdle
    /\ timeout = 1
    /\ ValIdle
    /\ config \in AllowLists
    /\ AuxIdle

\* the credential parseCredentials is given
CInit ==
    /\ AdmIdle
    /\ timeout = 1
    /\ ValIdle
    /\ config = <<>>
    /\ twin = IdleRun
    /\ cred \in AuthConfigs
    /\ parsed = NotParsed

Next ==
    \/ HandleCall
    \/ HKind
    \/ HDecode
    \/ HGetNamespace
    \/ HValidatePod
    \/ DeadlineElapses
    \/ ParentCancel
    \/ Select

Spec == Init /\ [][Next]_vars

\* the wrapper task is scheduled: a select with a ready case proceeds.  No
\* fairness is assumed of the goroutine, whose remote calls may never return.
LiveSpec == Spec /\ WF_vars(Select)

VNext ==
    \/ VCall
    \/ VNewRepoClient
    \/ VGetTargetByName
    \/ VGetAnonymous
    \/ VGetAuthenticated
    \/ VIndex
    \/ VImage
    \/ VManifest
    \/ VDigest

ValidateSpec == VInit /\ [][VNext]_vars

PNext ==
    \/ PCall
    \/ PNewRepoClient
    \/ PGetTargetByName
    \/ PGetAnonymous
    \/ PGetAuthenticated
    \/ PIndex
    \/ PImage
    \/ PManifest
    \/ PDigest

PairSpec == VInit /\ [][PNext]_vars

CNext == ParseCredentials

CredSpec == CInit /\ [][CNext]_vars

----------------------------------------------------------------------------
(* Properties of handleWithTimeout *)

TimedOut(r) ==
    /\ ~r.allowed
    /\ r.code = StatusRequestTimeout
    /\ r.msg = TimeoutMsg
    /\ r.timeout = timeout
    /\ r.patches = NoPatch

\* C1 as stated: whenever w.handle had not returned when the deadline elapsed,
\* Handle returns the 408 response naming the configured duration.
C1_TimeoutWheneverDeadlineFirst ==
    (wpc = "returned" /\ hpcAtDeadline # "" /\ hpcAtDeadline \notin Completed)
        => TimedOut(ret)

\* C1, amended: whenever the deadline has elapsed and w.handle has not returned
\* at the moment the select of the wrapper resolves, Handle returns the 408
\* response naming the configured duration, and not the response of w.handle.
C1_TimeoutWhenOnlyDeadlineReady ==
    (wpc = "returned" /\ seen.ctx = DeadlineExceeded /\ ~seen.done)
        => (TimedOut(ret) /\ seen.branch = "timeout")

C1_Witness ==
    /\ wpc = "returned"
    /\ seen.ctx = DeadlineExceeded
    /\ ~seen.done
    /\ hpc = "validate"
    /\ ret.code = StatusRequestTimeout

\* C2 as stated: if w.handle returned before the deadline elapsed, Handle
\* returns the response of w.handle, in every interleaving (here of the runs
\* in which the caller did not cancel the parent context).
C2_InnerResponseWheneverInnerFirst ==
    (wpc = "returned" /\ seen.done /\ seen.ctx # Canceled
        /\ (hpcAtDeadline = "" \/ hpcAtDeadline \in Completed))
        => ret = resp

\* C2, amended: if w.handle has returned and ctxTimeout is not done at the
\* moment the select of the wrapper resolves, Handle returns exactly the
\* response w.handle produced.
C2_InnerResponseWhenOnlyDoneReady ==
    (wpc = "returned" /\ seen.done /\ seen.ctx = NoErr)
        => (ret = resp /\ seen.branch = "done" /\ hpc = "exit")

C2_Witness ==
    /\ wpc = "returned"
    /\ seen.done
    /\ seen.ctx = NoErr
    /\ ret.allowed
    /\ ret.patches # NoPatch

\* C3: once the deadline has elapsed Handle returns, even if w.handle never
\* does: the wrapper does not wait for the goroutine beyond the deadline.
C3_ReturnsAfterDeadline ==
    (ctxErr = DeadlineExceeded) ~> (wpc = "returned")

C3_Witness ==
    /\ wpc = "returned"
    /\ seen.ctx = DeadlineExceeded
    /\ hpc \notin Completed
    /\ hpc # "idle"

----------------------------------------------------------------------------
(* Properties of notaryService.Validate *)

\* the image string starts with an entry of the allow list
StartsWith(s, prefix) == \E k \in 0..Len(s) : SubSeq(s, 1, k) = prefix
StartsWithAllowed == \E i \in 1..Len(config) : StartsWith(image, config[i])

\* Validate returned success without a single remote call
ShortCircuited == vpc = "done" /\ verr = NilError /\ vcalls = <<>>

\* C4: an image that starts with an entry of the allow list, at any position
\* of the list and well-formed or not, makes Validate succeed without any call
\* to the trust authority or the registry; no other image takes this way out.
C4_AllowListShortCircuit ==
    vpc # "idle" => (StartsWithAllowed <=> ShortCircuited)

C4_Witness ==
    /\ ShortCircuited
    /\ Len(config) = 2
    /\ ~StartsWith(image, config[1])
    /\ StartsWith(image, config[2])
    /\ ~ParseReference(image).ok

\* both lookups of Validate returned without an error
BothObtained ==
    /\ vpc = "done"
    /\ notaryRet.returned /\ notaryRet.err = NilError
    /\ repoRet.returned /\ repoRet.err = NilError

\* x is y with exactly one byte changed
OneByteFlipped(x, y) ==
    Len(x) = Len(y) /\ Cardinality({i \in 1..Len(x) : x[i] # y[i]}) = 1

\* a legacy manifest-config digest came back and is the expected digest
LegacyMatches ==
    ~repoRet.manifest.isNil /\ repoRet.manifest.bytes = notaryRet.digest

\* C5 as stated: equal digests make Validate succeed, and a registry digest
\* that differs from the trust-authority digest in one byte makes it fail.
C5_EqualSucceedsFlippedFails ==
    BothObtained =>
        /\ repoRet.image = notaryRet.digest => verr = NilError
        /\ OneByteFlipped(repoRet.image, notaryRet.digest)
               => verr.class = ValidationFailed

\* C5, amended: equal digests make Validate succeed, and a registry digest
\* that differs from the trust-authority digest in one byte makes it fail
\* unless the legacy manifest-config digest equals the trust-authority digest.
C5_EqualSucceedsFlippedFailsUnlessLegacy ==
    BothObtained =>
        /\ repoRet.image = notaryRet.digest => verr = NilError
        /\ (OneByteFlipped(repoRet.image, notaryRet.digest) /\ ~LegacyMatches)
               => verr.class = ValidationFailed

C5_Witness ==
    /\ BothObtained
    /\ ParseReference(image).ok
    /\ ~StartsWithAllowed
    /\ OneByteFlipped(repoRet.image, notaryRet.digest)
    /\ ~repoRet.manifest.isNil
    /\ verr.class = ValidationFailed

\* C6: with both digests there, Validate succeeds exactly if the primary
\* registry digest is the expected one, or a legacy manifest-config digest came
\* back (from a single image, never from an index) and is the expected one;
\* else it fails with ValidationFailed "unexpected image hash value".
C6_VerdictIffDigestMatches ==
    BothObtained =>
        /\ verr = NilError <=> (repoRet.image = notaryRet.digest \/ LegacyMatches)
        /\ verr # NilError
               => verr = NewValidationFailedErr("unexpected image hash value")
        /\ ~repoRet.manifest.isNil <=> descriptor = "image"

C6_Witness ==
    /\ BothObtained
    /\ verr = NilError
    /\ repoRet.image # notaryRet.digest
    /\ LegacyMatches

\* the positions in vcalls of the calls named in names
CallsOf(names) == {i \in 1..Len(vcalls) : vcalls[i].name \in names}

\* C7: the trust-authority lookup comes strictly before any registry fetch,
\* and an error of the lookup ends Validate with that very error, the registry
\* never contacted.
C7_TrustLookupFirst ==
    /\ \A i \in CallsOf(NotaryCalls), j \in CallsOf(RegistryCalls) : i < j
    /\ CallsOf(RegistryCalls) # {}
           => /\ CallsOf({"GetTargetByName"}) # {}
              /\ notaryRet.returned /\ notaryRet.err = NilError
    /\ (notaryRet.returned /\ notaryRet.err # NilError)
           => /\ vpc = "done"
              /\ verr = notaryRet.err
              /\ CallsOf(RegistryCalls) = {}

C7_Witness ==
    /\ vpc = "done"
    /\ notaryRet.returned
    /\ notaryRet.err.class = ValidationFailed
    /\ CallsOf({"GetTargetByName"}) # {}
    /\ verr.class = ValidationFailed

----------------------------------------------------------------------------
(* Properties of handle *)

\* the label the outcome mapping prescribes for a result
PrescribedLabel(v) ==
    IF v = Valid THEN ValidationStatusSuccess
    ELSE IF v = Invalid THEN ValidationStatusReject
    ELSE ValidationStatusPending

\* ValidatePod has returned v without an error, and handle has returned
Validated(v) ==
    hpc \in Completed /\ result.err = NoErr /\ result.value = v

\* the object after the patch of response r carries label value l
PatchedLabelIs(r, l) ==
    LET after == ApplyPatch(req.raw, r.patches).labels
    IN  /\ ~after.isNil
        /\ PodValidationLabel \in DOMAIN after.m
        /\ after.m[PodValidationLabel] = l

\* the patch of response r writes label value l, or the object has it already
PatchWritesLabel(r, l) ==
    \/ \E p \in r.patches :
          /\ p.op \in {"add", "replace"}
          /\ \/ p.key = PodValidationLabel /\ p.val = l
             \/ /\ p.key = WholeLabels
                /\ PodValidationLabel \in DOMAIN p.map
                /\ p.map[PodValidationLabel] = l
    \/ /\ ~req.raw.labels.isNil
       /\ PodValidationLabel \in DOMAIN req.raw.labels.m
       /\ req.raw.labels.m[PodValidationLabel] = l

C9_NoActionAllowsUnmodified ==
    Validated(NoAction) =>
        /\ resp.allowed
        /\ resp.msg # ""
        /\ resp.patches = NoPatch
        /\ ~labeled.called
        /\ ApplyPatch(req.raw, resp.patches) = req.raw
        /\ pod = Decode(req.raw)

C9_Witness ==
    /\ Validated(NoAction)
    /\ req.raw.labels = Labels(EmptyMap)
    /\ wpc = "returned"
    /\ ret = resp
    /\ ret.allowed

\* C10: a request for another kind than Pod makes handle return the 400
\* response, which Handle returns unless its wrapper took the deadline case;
\* the Pod is not decoded, the Namespace not fetched, ValidatePod not called.
C10_NonPodRejected ==
    (wpc # "idle" /\ req.kind # PodType) =>
        /\ calls = <<>>
        /\ pod = NoPod
        /\ result = NoResult
        /\ hpc \in Completed \cup {"kind"}
        /\ hpc \in Completed
               => (~resp.allowed /\ resp.code = StatusBadRequest)
        /\ (wpc = "returned" /\ seen.branch = "done")
               => (~ret.allowed /\ ret.code = StatusBadRequest)

C10_Witness ==
    /\ req.kind = "Deployment"
    /\ wpc = "returned"
    /\ seen.branch = "done"
    /\ ret.code = StatusBadRequest

----------------------------------------------------------------------------
(* C11 *)

\* the order in which handle calls its collaborators
StepOrder == <<"Decode", "Get", "ValidatePod">>

\* the i-th call of handle returned an error
StepFailed(i) == i \in 1..Len(calls) /\ calls[i].failed

\* C11: handle calls Decode, then the namespace Get, then ValidatePod, each at
\* most once; a call that returned an error is the last call made (no later
\* step runs, nothing is retried), and handle's response is then an error
\* response with status 500.
C11_FailedStepYields500 ==
    /\ Len(calls) <= Len(StepOrder)
    /\ \A i \in 1..Len(calls) : calls[i].name = StepOrder[i]
    /\ \A i \in 1..Len(calls) : StepFailed(i) => i = Len(calls)
    /\ (hpc \in Completed /\ StepFailed(Len(calls))) =>
          /\ resp.code = StatusInternalServerError
          /\ ~resp.allowed
          /\ resp.patches = NoPatch

\* handle has returned after the namespace Get failed
C11_Witness ==
    /\ hpc \in Completed
    /\ Len(calls) = 2
    /\ StepFailed(2)
    /\ resp.code = StatusInternalServerError

----------------------------------------------------------------------------
(* C16 *)

\* the deadline has elapsed and handleWithTimeout has returned from the
\* timeout case of its select
AbandonedTask ==
    wpc = "returned" /\ seen.branch = "timeout" /\ seen.ctx = DeadlineExceeded

\* C16: once the wrapper has returned its 408 response and w.handle has
\* returned in the abandoned goroutine, the goroutine eventually terminates.
C16_AbandonedTaskTerminates ==
    (AbandonedTask /\ hpc \in Completed) ~> (hpc = "exit")

----------------------------------------------------------------------------
(* C17 *)

\* C17: a returned 408 "request exceeded desired timeout" response means that
\* the deadline of ctxTimeout had elapsed; a cancelled parent context alone
\* does not produce it.
C17_TimeoutOnlyAfterDeadline ==
    (wpc = "returned" /\ ret.code = StatusRequestTimeout) =>
        seen.ctx = DeadlineExceeded

----------------------------------------------------------------------------
(* C20 *)

\* the label maps of a Pod as a function (a nil map has no keys)
LabelsOf(p) == IF p.labels.isNil THEN EmptyMap ELSE p.labels.m

\* C20: once labelPod has run for a result other than NoAction, the Pod it
\* returned has a label map holding the validation-status key, agrees with the
\* decoded Pod on every other label and on the rest of the object, and the
\* decoded Pod itself is still what Decode produced from the request.
C20_LabelPodFrame ==
    labeled.called =>
        /\ result.value # NoAction
        /\ ~labeled.pod.labels.isNil
        /\ PodValidationLabel \in DOMAIN labeled.pod.labels.m
        /\ DOMAIN labeled.pod.labels.m \ {PodValidationLabel}
             = DOMAIN LabelsOf(Decode(req.raw)) \ {PodValidationLabel}
        /\ \A k \in DOMAIN labeled.pod.labels.m \ {PodValidationLabel} :
             labeled.pod.labels.m[k] = LabelsOf(Decode(req.raw))[k]
        /\ labeled.pod.spec = Decode(req.raw).spec
        /\ pod = Decode(req.raw)

\* labelPod has overwritten the status label of a Pod that has another label
C20_Witness ==
    /\ labeled.called
    /\ OtherLabel \in DOMAIN LabelsOf(pod)
    /\ PodValidationLabel \in DOMAIN LabelsOf(pod)
    /\ LabelsOf(pod)[PodValidationLabel] # labeled.pod.labels.m[PodValidationLabel]

----------------------------------------------------------------------------
(* C12 *)

\* the last remote call of Validate was name, and it returned an error
FailedAt(name) ==
    /\ Len(vcalls) > 0
    /\ vcalls[Len(vcalls)].name = name
    /\ vcalls[Len(vcalls)].failed

KnownPhrasings == {NoTrustData, NoValidTrustData}
\* some stretch of the text is one of the known phrasings
IndicatesNoTrustData(text) ==
    \E i \in 1..Len(text), j \in 1..Len(text) : SubSeq(text, i, j) \in KnownPhrasings

\* Validate has returned the error of the trust authority, with the class its
\* text calls for
ClassedByText ==
    /\ vpc = "done"
    /\ verr.class = IF IndicatesNoTrustData(verr.cause)
                    THEN ValidationFailed ELSE UnknownResult

\* C12 as stated: an error of either call to the trust authority (creating the
\* client, looking the target up) is returned as ValidationFailed when its
\* text holds a known no-trust-data phrasing, and as UnknownResult otherwise.
C12_AnyNotaryErrorClassedByText ==
    \A name \in NotaryCalls : FailedAt(name) => ClassedByText

\* C12, amended: an error of GetTargetByName is returned as ValidationFailed
\* when its text holds a known no-trust-data phrasing and as UnknownResult
\* otherwise; an error of NewRepoClient is returned as UnknownResult whatever
\* its text.
C12_LookupErrorClassedByText ==
    /\ FailedAt("GetTargetByName") => ClassedByText
    /\ FailedAt("NewRepoClient") => (vpc = "done" /\ verr.class = UnknownResult)

\* a lookup error with the second phrasing inside a longer text
C12_Witness ==
    /\ FailedAt("GetTargetByName")
    /\ verr.cause = <<"timeout">> \o NoValidTrustData
    /\ verr.class = ValidationFailed

----------------------------------------------------------------------------
(* C13 *)

\* Validate has returned the hash-count error msg without a call to the registry
HashCountRejected(msg) ==
    /\ vpc = "done"
    /\ verr = NewValidationFailedErr(msg)
    /\ CallsOf(RegistryCalls) = {}

\* C13: when GetTargetByName returned a target, getNotaryImageDigestHash
\* gives a digest exactly if the target holds one hash, and then that hash;
\* no hash and several hashes end Validate with the ValidationFailed errors
\* "image hash is missing" and "more than one hash for image", the registry
\* not having been called.
C13_ExactlyOneHash ==
    notaryRet.found =>
        LET n == Cardinality(DOMAIN notaryRet.hashes)
        IN  /\ notaryRet.err = NilError <=> n = 1
            /\ n = 1 => \A k \in DOMAIN notaryRet.hashes :
                           notaryRet.digest = notaryRet.hashes[k]
            /\ n = 0 => HashCountRejected("image hash is missing")
            /\ n > 1 => HashCountRejected("more than one hash for image")

\* a target with two different hashes was rejected
C13_Witness ==
    /\ notaryRet.found
    /\ DOMAIN notaryRet.hashes = HashAlgorithms
    /\ notaryRet.hashes["sha256"] # notaryRet.hashes["sha512"]
    /\ verr.class = ValidationFailed

----------------------------------------------------------------------------
(* C14 *)

\* the descriptor fetches among the calls, and those with an authenticator
Gets == {i \in 1..Len(vcalls) : vcalls[i].name = "remote.Get"}
AuthenticatedGets == {i \in Gets : vcalls[i].auth}
AnonymousFailed == \E i \in Gets : ~vcalls[i].auth /\ vcalls[i].failed
HostHasCredential == ref.registry \in DOMAIN creds

\* C14: the first descriptor fetch is anonymous; a fetch with an authenticator
\* is made at most once, and only after the anonymous fetch failed with a
\* credential present for the registry host of the reference.  A failed
\* anonymous fetch without a credential ends Validate with UnknownResult.
\* With a credential, the credential is resolved: if that succeeds the fetch
\* is retried once with the resolved authenticator, and a failed retry ends
\* Validate with UnknownResult; if it fails, Validate returns the resolver's
\* error without a retry.
C14_AnonymousFirstThenAuthenticated ==
    /\ \A i \in Gets : (\A j \in Gets : i <= j) => ~vcalls[i].auth
    /\ Cardinality(Gets \ AuthenticatedGets) <= 1
    /\ Cardinality(AuthenticatedGets) <= 1
    /\ \A i \in AuthenticatedGets :
         /\ HostHasCredential
         /\ \E j \in Gets : j < i /\ ~vcalls[j].auth /\ vcalls[j].failed
    /\ (AnonymousFailed /\ ~HostHasCredential) =>
         /\ vpc = "done"
         /\ verr.class = UnknownResult
         /\ AuthenticatedGets = {}
    /\ (AnonymousFailed /\ HostHasCredential) =>
         LET p == parseCredentials(creds[ref.registry])
         IN  IF p.err # NilError
             THEN vpc = "done" /\ verr = p.err /\ AuthenticatedGets = {}
             ELSE /\ remoteOptions = <<p.auth>>
                  /\ vpc = "getAuthenticated" \/ Cardinality(AuthenticatedGets) = 1
                  /\ \A i \in AuthenticatedGets :
                       vcalls[i].failed => (vpc = "done" /\ verr.class = UnknownResult)

\* the anonymous fetch and the retry with the authenticator both failed
C14_Witness ==
    /\ AnonymousFailed
    /\ \E i \in AuthenticatedGets : vcalls[i].failed
    /\ vpc = "done"
    /\ verr.class = UnknownResult

----------------------------------------------------------------------------
(* C15 *)

\* the positions of the colons in a text
Colons(t) == {i \in 1..Len(t) : t[i] = Colon}

\* C15: what parseCredentials returns is fixed by the credential, in this
\* order: a basic authenticator of Username and Password when both are
\* non-empty; else a bearer authenticator of a non-empty RegistryToken; else,
\* for a non-empty Auth that is base64 of a text with exactly one colon, a
\* basic authenticator of the two parts of the text; else a ValidationFailed
\* error and no authenticator.
C15_CredentialPriority ==
    parsed.called =>
        IF cred.Username # <<>> /\ cred.Password # <<>>
        THEN parsed.err = NilError /\ parsed.auth = Basic(cred.Username, cred.Password)
        ELSE IF cred.RegistryToken # <<>>
        THEN parsed.err = NilError /\ parsed.auth = Bearer(cred.RegistryToken)
        ELSE IF /\ cred.Auth # <<>>
                /\ Base64Decode(cred.Auth).ok
                /\ Cardinality(Colons(Base64Decode(cred.Auth).text)) = 1
        THEN LET t == Base64Decode(cred.Auth).text
                 k == CHOOSE i \in Colons(t) : TRUE
             IN  /\ parsed.err = NilError
                 /\ parsed.auth = Basic(SubSeq(t, 1, k - 1), SubSeq(t, k + 1, Len(t)))
        ELSE parsed.err.class = ValidationFailed /\ parsed.auth = NoAuth

\* an Auth text alone gave a basic authenticator with a password of two bytes
C15_Witness ==
    /\ parsed.called
    /\ cred.Username = <<>>
    /\ cred.RegistryToken = <<>>
    /\ parsed.auth.kind = "basic"
    /\ Len(parsed.auth.secret) = 2

----------------------------------------------------------------------------
(* C18 *)

InfrastructureFailures ==
    {"get image descriptor anonymously", "get image descriptor", "get image",
     "image digest", "image manifest", "checksum error", "manifest checksum error"}
InputFailures ==
    {"image name could not be parsed", "image hash is missing",
     "more than one hash for image", "cannot decode base64 encoded auth",
     "invalid auth format, expected username:password form",
     "unknown auth secret format", "not an image or image list",
     "unexpected image hash value"}

\* C18: Validate returns nil or an error whose class is ValidationFailed or
\* UnknownResult: UnknownResult for a failed call to or an undecodable answer
\* of the registry, for a failed creation of the trust-authority client and
\* for a failed lookup whose text has no known no-trust-data phrasing;
\* ValidationFailed for an unparsable image, a hash count other than one, a
\* malformed credential, an unsupported media type, a digest mismatch and a
\* lookup error with such a phrasing.
C18_EveryErrorClassified ==
    /\ verr = NilError \/ verr.class \in {ValidationFailed, UnknownResult}
    /\ vpc # "done" => verr = NilError
    /\ (vpc = "done" /\ verr # NilError) =>
         /\ verr.msg \in InfrastructureFailures \cup InputFailures \cup {""}
         /\ verr.msg \in InfrastructureFailures => verr.class = UnknownResult
         /\ verr.msg \in InputFailures => verr.class = ValidationFailed
         /\ verr.msg = "" =>
              /\ FailedAt("NewRepoClient") \/ FailedAt("GetTargetByName")
              /\ FailedAt("NewRepoClient") => verr.class = UnknownResult
              /\ FailedAt("GetTargetByName") =>
                   verr.class = IF IndicatesNoTrustData(verr.cause)
                                THEN ValidationFailed ELSE UnknownResult

\* Validate returned the error of an undecodable manifest digest
C18_Witness ==
    /\ vpc = "done"
    /\ verr.msg = "manifest checksum error"
    /\ verr.class = UnknownResult

----------------------------------------------------------------------------
(* C19 *)

\* the two credential maps have the same entry, or none, for the registry
\* host of the reference
AgreeOnHost ==
    /\ ref.registry \in DOMAIN creds <=> ref.registry \in DOMAIN twin.creds
    /\ ref.registry \in DOMAIN creds => creds[ref.registry] = twin.creds[ref.registry]

\* C19: of two calls of Validate for one image against the same registry and
\* trust authority, whose credential maps agree on the registry host of the
\* reference or whose anonymous descriptor fetch did not fail, each is where
\* the other is, has made the same remote calls and has the same verdict; and
\* where the anonymous fetch did not fail, no call carried an authenticator.
C19_CredentialsReadOnlyForHostAfterFailure ==
    (vpc # "idle" /\ (AgreeOnHost \/ ~AnonymousFailed)) =>
        /\ twin.pc = vpc
        /\ twin.vcalls = vcalls
        /\ twin.verr = verr
        /\ ~AnonymousFailed => \A i \in 1..Len(vcalls) : ~vcalls[i].auth

\* a call with a malformed credential for the host and one without any agree
\* on a verdict reached through the image fetch, the anonymous fetch having
\* succeeded
C19_Witness ==
    /\ vpc = "done"
    /\ verr = NilError
    /\ ~AnonymousFailed
    /\ HostHasCredential
    /\ parseCredentials(creds[ref.registry]).err # NilError
    /\ ref.registry \notin DOMAIN twin.creds
    /\ CallsOf({"remote.Image"}) # {}

====
